---- MODULE Spec2Model ----
(***************************************************************************)
(* A model of the pyrena arena: the Match Runner (src/pyrena.py) and the   *)
(* Bracket Engine (src/tournament_scheduler.py), which share the games     *)
(* table of one database.                                                  *)
(*                                                                         *)
(*   Spec         one Match Runner process, the engine seen as the process *)
(*                that enqueues games, client containers, SIGINT           *)
(*   SpecClaim    several runners that each run grab_queued_game once      *)
(*   SpecPairing  generate_nonrecent_pairing on enumerated inputs          *)
(*   SpecBracket  the Bracket Engine's tick loop, the runners seen as the  *)
(*                processes that play the queued games                     *)
(***************************************************************************)
EXTENDS Integers, Sequences, FiniteSets, TLC

VARIABLES
    games,      \* tables games + games_submissions: row id = index
    subStatus,  \* submissions.status, by submission id
    images,     \* docker images submission_<id> present on the host
    runner,     \* per Match Runner process: position and locals of main()
    nodes,      \* the Bracket Engine's global list of Node objects
    engine      \* the Bracket Engine process: position and configuration

vars == <<games, subStatus, images, runner, nodes, engine>>

(***************************************************************************)
(* Bounds of the model                                                     *)
(***************************************************************************)
NumSubs == 3        \* submissions in the database, ids 1..NumSubs
MaxGames == 2       \* rows of the games table (Spec)
MaxIters == 2       \* iterations of the runner's while loop
MaxSigints == 2     \* SIGINTs delivered to one process
MaxFaults == 1      \* calls of one process that raise (database, HTTP, ...)
NumClaimers == 3    \* concurrent runners of SpecClaim
MaxQueued == 3      \* queued rows SpecClaim starts from
MaxRecent == 2      \* recent games SpecPairing starts from

(***************************************************************************)
(* Program constants                                                       *)
(***************************************************************************)
TRIES == 200        \* generate_nonrecent_pairing: tries = 200
BYE == -1           \* BYE.id = -1
None == 0           \* Python None / SQL NULL (ids are positive)

Subs == 1..NumSubs

Min(S) == CHOOSE x \in S : \A y \in S : x <= y
Max(S) == CHOOSE x \in S : \A y \in S : x >= y

\* A reason text as stored in games.win_reason / lose_reason.  A reason a
\* client reported is tagged with the game whose final status carried it.
Reason(text, g) == [text |-> text, game |-> g]
NullReason == Reason("NULL", 0)
Unbound == Reason("unbound", 0)
ArenaFailed == Reason("Arena failed to run game", 0)
CancelledByAdmin == Reason("Cancelled by admin", 0)

(***************************************************************************)
(* The database                                                            *)
(***************************************************************************)
\* INSERT INTO games (status) ... ; INSERT INTO games_submissions ... (a, b)
\* lockedBy is the row lock of an open transaction; claims counts the
\* committed queued -> playing updates of the row (history).
NewGame(status, a, b) ==
    [status |-> status, winner_id |-> None, win_reason |-> NullReason,
     lose_reason |-> NullReason, subs |-> <<a, b>>, lockedBy |-> None,
     claims |-> 0]

GameIds == DOMAIN games

SubsOf2(db, g) == {db[g].subs[1], db[g].subs[2]}
SubsOf(g) == SubsOf2(games, g)

\* the same sub-select without its row locks: every queued row
ClaimableIgnoringLocks(gs) == {g \in DOMAIN gs : gs[g].status = "queued"}

\* SELECT id FROM games WHERE status = 'queued' ORDER BY id
\*   FOR UPDATE SKIP LOCKED LIMIT 1: the rows the sub-select can return
Claimable(gs) ==
    {g \in DOMAIN gs : gs[g].status = "queued" /\ gs[g].lockedBy = None}

\* the same sub-select with ORDER BY id DESC
LastClaimable(gs) == Max(Claimable(gs))

\* ... ORDER BY id ... LIMIT 1: the row the sub-select returns
FirstClaimable(gs) == Min(Claimable(gs))

\* conn.rollback() / conn.close(): the transaction's row locks are released
ReleaseLocks(gs, r) ==
    [g \in DOMAIN gs |->
        IF gs[g].lockedBy = r THEN [gs[g] EXCEPT !.lockedBy = None] ELSE gs[g]]

\* UPDATE games SET status = 'failed', win_reason = %s, lose_reason = %s
\*   WHERE id = %s
update_game_failed(gs, g, reason) ==
    [gs EXCEPT ![g].status = "failed", ![g].win_reason = reason,
               ![g].lose_reason = reason]

\* UPDATE games SET status = 'finished', win_reason, lose_reason, winner_id,
\*   log_url WHERE id = %s
update_game_succeeded(gs, win_reason, lose_reason, winner_id, g) ==
    [gs EXCEPT ![g].status = "finished", ![g].win_reason = win_reason,
               ![g].lose_reason = lose_reason, ![g].winner_id = winner_id]

\* get_latest_submissions: per team the highest version whose status is not
\* failed.  Every submission of the model is the only version of its team,
\* and every team is eligible.
get_latest_submissions(st) == {s \in Subs : st[s] # "failed"}

\* t.name of a submission's team: one team per submission
Name(s) == s

\* get_recent_games + the head of generate_nonrecent_pairing: the sorted id
\* pairs of the recent games that are not queued.  Every game of the model
\* was created within LOOKBACK_SECONDS.
SortedPair(a, b) == IF a <= b THEN <<a, b>> ELSE <<b, a>>
\* the recent pairs in the order the rows hold them, ids not sorted
RecentPairsUnsorted(gs) ==
    {gs[g].subs : g \in {h \in DOMAIN gs : gs[h].status # "queued"}}

RecentPairs(gs) ==
    {SortedPair(gs[g].subs[1], gs[g].subs[2]) :
        g \in {h \in DOMAIN gs : gs[h].status # "queued"}}

\* generate_pairing: two distinct ids drawn at random, sorted
generate_pairing(ids) ==
    {SortedPair(a, b) : a \in ids, b \in ids} \ {<<a, a>> : a \in ids}

\* grab_queued_game: pair = tuple(s for s in submissions if s.id in ids);
\* the rows of get_all_submissions come in no stated order (no ORDER BY)
HydratePair(ids) ==
    {p \in {<<a, b>> : a \in ids, b \in ids} : p[1] # p[2]}

\* winner_id = next(s.id for s in pair if s.name == winner_name)
WinnerId(pair, winner_name) ==
    pair[Min({i \in DOMAIN pair : Name(pair[i]) = winner_name})]

(***************************************************************************)
(* The Match Runner: main() of pyrena.py                                   *)
(***************************************************************************)
Runners == DOMAIN runner

\* positions inside the try block of main()
TryPcs ==
    {"queries", "grab", "grab_commit", "grab_subs", "recent", "generate",
     "gen_loop", "insert", "prepare", "setup_room", "start_clients", "wait",
     "kill", "gamelog", "finish", "try_end"}
\* positions at which the step about to run can raise an Exception from
\* the database, the blob store, the game server or the container engine
RaisingPcs ==
    {"queries", "grab", "grab_commit", "grab_subs", "recent", "insert",
     "prepare", "setup_room", "start_clients", "gamelog", "finish"}
AlivePcs == TryPcs \cup {"start", "except", "after", "kbd"}

InitRunner(run_forever) ==
    [pc |-> "start", game_id |-> None, pair |-> <<>>, claimed |-> None,
     RUN_FOREVER |-> run_forever, env_RUN_FOREVER |-> run_forever,
     processes |-> <<>>, stdouts |-> <<>>,
     win_reason |-> Unbound, lose_reason |-> Unbound, winner_id |-> None,
     prep |-> 0, latest |-> {}, pairs |-> {}, tries |-> 0,
     sigints |-> 0, iters |-> 1, sigIter |-> 0, raised |-> FALSE,
     faults |-> 0, fatal |-> None]

\* The locals of main() that are bound again before they are next read
\* (pair, processes, stdouts, winner_id and the locals of the functions
\* called) are dropped once they are dead; game_id, win_reason and
\* lose_reason keep their values into the next iteration.
DropLocals(rec) ==
    [rec EXCEPT !.pair = <<>>, !.latest = {}, !.pairs = {}, !.tries = 0,
                !.prep = 0, !.winner_id = None, !.processes = <<>>,
                !.stdouts = <<>>, !.fatal = None]

\* while True: try: game_id = None
Begin(r) ==
    /\ runner[r].pc = "start"
    /\ runner' = [runner EXCEPT ![r].pc = "queries", ![r].game_id = None,
                                ![r].claimed = None, ![r].raised = FALSE]
    /\ UNCHANGED <<games, subStatus, images, nodes, engine>>

\* latest_submissions = get_latest_submissions(conn); get_all_submissions
Queries(r) ==
    /\ runner[r].pc = "queries"
    /\ runner' = [runner EXCEPT ![r].pc = "grab",
                     ![r].latest = get_latest_submissions(subStatus)]
    /\ UNCHANGED <<games, subStatus, images, nodes, engine>>

\* grab_queued_game, cur.execute(UPDATE ... RETURNING g.id): the row is
\* locked and updated inside the runner's open transaction
GrabStmt(r) ==
    /\ runner[r].pc = "grab"
    /\ IF Claimable(games) = {}
         THEN /\ runner' = [runner EXCEPT ![r].pc = "grab_commit",
                                          ![r].claimed = None]
              /\ UNCHANGED games
         ELSE LET g == FirstClaimable(games) IN
              /\ runner' = [runner EXCEPT ![r].pc = "grab_commit",
                                          ![r].claimed = g]
              /\ games' = [games EXCEPT ![g].lockedBy = r]
    /\ UNCHANGED <<subStatus, images, nodes, engine>>

\* grab_queued_game, conn.commit(); if not result: return None, None
GrabCommit(r) ==
    /\ runner[r].pc = "grab_commit"
    /\ LET g == runner[r].claimed IN
       IF g = None
         THEN /\ runner' = [runner EXCEPT ![r].pc = "recent"]
              /\ UNCHANGED games
         ELSE /\ runner' = [runner EXCEPT ![r].pc = "grab_subs"]
              /\ games' = [games EXCEPT ![g].status = "playing",
                                        ![g].lockedBy = None,
                                        ![g].claims = @ + 1]
    /\ UNCHANGED <<subStatus, images, nodes, engine>>

\* grab_queued_game, the games_submissions query and the return; main()
\* assigns game_id, pair only now
GrabSubs(r) ==
    /\ runner[r].pc = "grab_subs"
    /\ \E p \in HydratePair(SubsOf(runner[r].claimed)) :
         runner' = [runner EXCEPT ![r].pc = "prepare", ![r].prep = 1,
                                  ![r].game_id = runner[r].claimed,
                                  ![r].pair = p]
    /\ UNCHANGED <<games, subStatus, images, nodes, engine>>

\* games = get_recent_games(conn, LOOKBACK_SECONDS)
Recent(r) ==
    /\ runner[r].pc = "recent"
    /\ runner' = [runner EXCEPT ![r].pc = "generate",
                                ![r].pairs = RecentPairs(games)]
    /\ UNCHANGED <<games, subStatus, images, nodes, engine>>

\* generate_nonrecent_pairing: tries = 200; pair = generate_pairing(...)
\* generate_pairing raises when there are fewer than two submissions
GenFirst(r) ==
    /\ runner[r].pc = "generate"
    /\ IF Cardinality(runner[r].latest) < 2
         THEN runner' = [runner EXCEPT ![r].pc = "except", ![r].raised = TRUE]
         ELSE \E p \in generate_pairing(runner[r].latest) :
                runner' = [runner EXCEPT ![r].pc = "gen_loop", ![r].pair = p,
                                         ![r].tries = TRIES]
    /\ UNCHANGED <<games, subStatus, images, nodes, engine>>

\* generate_nonrecent_pairing: while pair in pairs: pair = generate_pairing;
\* tries -= 1; if tries <= 0: raise.  Leaving the loop returns the pair.
GenLoop(r) ==
    /\ runner[r].pc = "gen_loop"
    /\ IF runner[r].pair \in runner[r].pairs
         THEN \E p \in generate_pairing(runner[r].latest) :
                IF runner[r].tries - 1 <= 0
                  THEN runner' = [runner EXCEPT ![r].pc = "except",
                                     ![r].pair = p, ![r].tries = @ - 1,
                                     ![r].raised = TRUE]
                  ELSE runner' = [runner EXCEPT ![r].pair = p,
                                                ![r].tries = @ - 1]
         ELSE runner' = [runner EXCEPT ![r].pc = "insert", ![r].tries = 0]
    /\ UNCHANGED <<games, subStatus, images, nodes, engine>>

\* game_id = insert_new_game_row(conn, pair): a row with status playing
Insert(r) ==
    /\ runner[r].pc = "insert"
    /\ Len(games) < MaxGames
    /\ games' = Append(games,
                    NewGame("playing", runner[r].pair[1], runner[r].pair[2]))
    /\ runner' = [runner EXCEPT ![r].pc = "prepare", ![r].prep = 1,
                                ![r].game_id = Len(games) + 1,
                                ![r].pairs = {}, ![r].latest = {}]
    /\ UNCHANGED <<subStatus, images, nodes, engine>>

\* the position after the submission pair[prep] is prepared
AfterPrepare(k) == IF k = 2 THEN "setup_room" ELSE "prepare"

\* for submission in pair: download, unzip, verify, replace_dockerfile,
\* maybe_build_submission_container: the image exists (skip), or it is
\* built and the status set to finished
PrepareOk(r) ==
    /\ runner[r].pc = "prepare"
    /\ LET s == runner[r].pair[runner[r].prep] IN
       /\ images' = images \cup {s}
       /\ subStatus' = IF s \in images THEN subStatus
                       ELSE [subStatus EXCEPT ![s] = "finished"]
    /\ runner' = [runner EXCEPT ![r].pc = AfterPrepare(runner[r].prep),
                                ![r].prep = @ + 1]
    /\ UNCHANGED <<games, nodes, engine>>

\* unzip or verify raised: report_prebuild_failure sets the status failed,
\* then raise e; or the build produced no image: report_build_status
\* failed, raise
PrepareFails(r) ==
    /\ runner[r].pc = "prepare"
    /\ LET s == runner[r].pair[runner[r].prep] IN
       /\ s \notin images
       /\ subStatus' = [subStatus EXCEPT ![s] = "failed"]
       /\ runner' = [runner EXCEPT ![r].pc = "except", ![r].raised = TRUE,
                                   ![r].faults = @ + 1, ![r].fatal = s]
    /\ runner[r].faults < MaxFaults
    /\ UNCHANGED <<games, images, nodes, engine>>

\* replace_dockerfile raises (no Dockerfile for the language under
\* DOCKERFILE_PATH): the call is outside the try of the prepare loop, so
\* the exception goes to the except clause of main() as it is
DockerfileMissing(r) ==
    /\ runner[r].pc = "prepare"
    /\ LET s == runner[r].pair[runner[r].prep] IN
       /\ s \notin images
       /\ runner' = [runner EXCEPT ![r].pc = "except", ![r].raised = TRUE,
                                   ![r].faults = @ + 1, ![r].fatal = s]
    /\ runner[r].faults < MaxFaults
    /\ UNCHANGED <<games, subStatus, images, nodes, engine>>

\* the image was built, and upload_file_to_droopy or report_build_status
\* raised before the status was stored
PrepareBuiltThenRaises(r) ==
    /\ runner[r].pc = "prepare"
    /\ LET s == runner[r].pair[runner[r].prep] IN
       /\ s \notin images
       /\ images' = images \cup {s}
    /\ runner[r].faults < MaxFaults
    /\ runner' = [runner EXCEPT ![r].pc = "except", ![r].raised = TRUE,
                                ![r].faults = @ + 1]
    /\ UNCHANGED <<games, subStatus, nodes, engine>>

\* session = session_name(...); password = setup_room(game_id, pair);
\* processes = []; stdouts = []
SetupRoom(r) ==
    /\ runner[r].pc = "setup_room"
    /\ runner' = [runner EXCEPT ![r].pc = "start_clients",
                                ![r].processes = <<>>, ![r].stdouts = <<>>]
    /\ UNCHANGED <<games, subStatus, images, nodes, engine>>

\* p, stdout = start_and_connect_client(session, password, submission, i)
StartClient(r) ==
    /\ runner[r].pc = "start_clients"
    /\ runner' = [runner EXCEPT
                    ![r].processes = Append(@, "running"),
                    ![r].stdouts = Append(@, "open"),
                    ![r].pc = IF Len(runner[r].processes) = 1
                              THEN "wait" ELSE "start_clients"]
    /\ UNCHANGED <<games, subStatus, images, nodes, engine>>

\* a client container process ends by itself
ClientExits(r) ==
    /\ \E i \in DOMAIN runner[r].processes :
         /\ runner[r].processes[i] = "running"
         /\ runner' = [runner EXCEPT ![r].processes[i] = "exited"]
    /\ UNCHANGED <<games, subStatus, images, nodes, engine>>

Exited(ps) == {i \in DOMAIN ps : ps[i] # "running"}

\* wait_for_clients_to_finish: the first process found done has its log
\* closed; done = True; break
WaitDone(r) ==
    /\ runner[r].pc = "wait"
    /\ Exited(runner[r].processes) # {}
    /\ runner' = [runner EXCEPT ![r].pc = "kill",
                    ![r].stdouts[Min(Exited(runner[r].processes))] = "closed"]
    /\ UNCHANGED <<games, subStatus, images, nodes, engine>>

\* wait_for_clients_to_finish: time.monotonic() passed MATCH_TIMEOUT
WaitTimeout(r) ==
    /\ runner[r].pc = "wait"
    /\ runner' = [runner EXCEPT ![r].pc = "kill"]
    /\ UNCHANGED <<games, subStatus, images, nodes, engine>>

\* kill_remaining_clients: if p.poll() is None: p.terminate(); sleep(5);
\* stdouts[i].close().  The per-side log upload that follows only warns.
kill_remaining_clients(ps) ==
    [i \in DOMAIN ps |-> IF ps[i] = "running" THEN "exited" ELSE ps[i]]
Kill(r) ==
    /\ runner[r].pc = "kill"
    /\ runner' = [runner EXCEPT ![r].pc = "gamelog",
                    ![r].processes = kill_remaining_clients(@),
                    ![r].stdouts =
                        [i \in DOMAIN @ |->
                            IF runner[r].processes[i] = "running"
                            THEN "closed" ELSE @[i]]]
    /\ UNCHANGED <<games, subStatus, images, nodes, engine>>

\* what the game server's final status says of one client
ClientFlags == {"won", "lost", "none"}

\* the value of a local after "for client_info in clients: if flag: x = ..."
LastWith(flags, flag, old, g) ==
    IF \E i \in 1..2 : flags[i] = flag THEN Reason(flag, g) ELSE old

\* match_status = wait_for_gameserver_gamelog(session); the loop over
\* match_status['clients']; winner_id = next(...), which raises
\* StopIteration when no client won
Gamelog(r) ==
    /\ runner[r].pc = "gamelog"
    /\ \E flags \in [1..2 -> ClientFlags] :
         LET won == {i \in 1..2 : flags[i] = "won"}
             g == runner[r].game_id
             wr == LastWith(flags, "won", runner[r].win_reason, g)
             lr == LastWith(flags, "lost", runner[r].lose_reason, g)
         IN IF won = {}
              THEN runner' = [runner EXCEPT ![r].pc = "except",
                                 ![r].raised = TRUE,
                                 ![r].win_reason = wr, ![r].lose_reason = lr]
              ELSE runner' = [runner EXCEPT ![r].pc = "finish",
                                 ![r].win_reason = wr, ![r].lose_reason = lr,
                                 ![r].winner_id =
                                   WinnerId(runner[r].pair,
                                            Name(runner[r].pair[Max(won)]))]
    /\ UNCHANGED <<games, subStatus, images, nodes, engine>>

\* a variant that writes the result to the newest row
FinishTargetLast(r) == Len(games)

\* the row update_game_succeeded writes to: WHERE id = game_id
FinishTarget(r) == runner[r].game_id

\* download_gamelog, upload_file_to_droopy, update_game_succeeded(conn,
\* win_reason, lose_reason, winner_id, url, game_id); reading an unbound
\* lose_reason raises UnboundLocalError
Finish(r) ==
    /\ runner[r].pc = "finish"
    /\ IF runner[r].lose_reason = Unbound
         THEN /\ runner' = [runner EXCEPT ![r].pc = "except",
                                          ![r].raised = TRUE]
              /\ UNCHANGED games
         ELSE /\ games' = update_game_succeeded(games, runner[r].win_reason,
                              runner[r].lose_reason, runner[r].winner_id,
                              FinishTarget(r))
              /\ runner' = [runner EXCEPT
                              ![r] = [DropLocals(@) EXCEPT !.pc = "try_end"]]
    /\ UNCHANGED <<subStatus, images, nodes, engine>>

\* the try block is left without an exception
LeaveTry(r) ==
    /\ runner[r].pc = "try_end"
    /\ runner' = [runner EXCEPT ![r].pc = "after"]
    /\ UNCHANGED <<games, subStatus, images, nodes, engine>>

\* a database, HTTP, file or container-engine call of the step raises
StepRaises(r) ==
    /\ runner[r].pc \in RaisingPcs
    /\ runner[r].faults < MaxFaults
    /\ runner' = [runner EXCEPT
            ![r].pc = "except", ![r].raised = TRUE, ![r].faults = @ + 1,
            \* an UPDATE that was not committed returned no id
            ![r].claimed = IF runner[r].pc = "grab_commit" THEN None ELSE @]
    /\ UNCHANGED <<games, subStatus, images, nodes, engine>>

\* except Exception: if game_id is not None: update_game_failed(conn,
\* game_id, 'Arena failed to run game'); conn.rollback(); time.sleep(...)
Except(r) ==
    /\ runner[r].pc = "except"
    /\ games' = ReleaseLocks(
                   IF runner[r].game_id # None
                   THEN update_game_failed(games, runner[r].game_id,
                                           ArenaFailed)
                   ELSE games, r)
    /\ runner' = [runner EXCEPT ![r] = [DropLocals(@) EXCEPT !.pc = "after"]]
    /\ UNCHANGED <<subStatus, images, nodes, engine>>

\* update_game_failed raises inside the except clause: the exception
\* leaves main() and the process ends with a traceback
ExceptRaises(r) ==
    /\ runner[r].pc = "except"
    /\ runner[r].game_id # None
    /\ runner[r].faults < MaxFaults
    /\ games' = ReleaseLocks(games, r)
    /\ runner' = [runner EXCEPT
                    ![r] = [DropLocals(@) EXCEPT !.pc = "crashed",
                                                 !.faults = @ + 1]]
    /\ UNCHANGED <<subStatus, images, nodes, engine>>

\* if not RUN_FOREVER: break  /  the next iteration of while True
LoopCheck(r) ==
    /\ runner[r].pc = "after"
    /\ IF runner[r].RUN_FOREVER
         THEN /\ runner[r].iters < MaxIters
              /\ runner' = [runner EXCEPT ![r].pc = "start",
                                          ![r].iters = @ + 1]
         ELSE runner' = [runner EXCEPT ![r].pc = "done"]
    /\ UNCHANGED <<games, subStatus, images, nodes, engine>>

\* a handler that raises KeyboardInterrupt whatever RUN_FOREVER is
SigintFlipsNever(run_forever) == FALSE

\* sigint_handler: if RUN_FOREVER: (clear the flag) else: raise
SigintFlips(run_forever) == run_forever

\* SIGINT reaches the process; sigint_handler runs in the main thread.
\* KeyboardInterrupt raised inside the try block reaches the except
\* KeyboardInterrupt clause; raised elsewhere it ends the process.
Sigint(r) ==
    /\ runner[r].pc \in AlivePcs
    /\ runner[r].sigints < MaxSigints
    /\ LET first == [runner EXCEPT ![r].sigints = @ + 1,
                        ![r].sigIter = IF runner[r].sigints = 0
                                       THEN runner[r].iters ELSE @]
       IN IF SigintFlips(runner[r].RUN_FOREVER)
            THEN /\ runner' = [first EXCEPT ![r].RUN_FOREVER = FALSE]
                 /\ UNCHANGED games
            ELSE IF runner[r].pc \in TryPcs
                   THEN /\ runner' = [first EXCEPT ![r].pc = "kbd"]
                        /\ UNCHANGED games
                   ELSE /\ runner' = [first EXCEPT
                                         ![r] = [DropLocals(@) EXCEPT
                                                   !.pc = "killed"]]
                        /\ games' = ReleaseLocks(games, r)
    /\ UNCHANGED <<subStatus, images, nodes, engine>>

\* except KeyboardInterrupt: if game_id is not None: update_game_failed(
\* conn, game_id, 'Cancelled by admin'); conn.close(); sys.exit(0)
KeyboardInterrupt(r) ==
    /\ runner[r].pc = "kbd"
    /\ games' = ReleaseLocks(
                   IF runner[r].game_id # None
                   THEN update_game_failed(games, runner[r].game_id,
                                           CancelledByAdmin)
                   ELSE games, r)
    /\ runner' = [runner EXCEPT ![r] = [DropLocals(@) EXCEPT !.pc = "exited"]]
    /\ UNCHANGED <<subStatus, images, nodes, engine>>

\* the Bracket Engine's create_queued_game(conn, left, right): a row with
\* status queued between two submissions the engine read as latest.  The
\* runner reads the queue only in grab_queued_game, so the rows are let in
\* between its iterations.
create_queued_game(a, b) ==
    /\ Len(games) < MaxGames
    /\ a # b
    /\ \A r \in Runners : runner[r].pc = "start"
    /\ games' = Append(games, NewGame("queued", a, b))
    /\ UNCHANGED <<subStatus, images, runner, nodes, engine>>

RunnerStep(r) ==
    \/ Begin(r) \/ Queries(r) \/ GrabStmt(r) \/ GrabCommit(r) \/ GrabSubs(r)
    \/ Recent(r) \/ GenFirst(r) \/ GenLoop(r) \/ Insert(r)
    \/ PrepareOk(r) \/ PrepareFails(r) \/ DockerfileMissing(r)
    \/ PrepareBuiltThenRaises(r)
    \/ SetupRoom(r) \/ StartClient(r) \/ WaitDone(r) \/ WaitTimeout(r)
    \/ Kill(r) \/ Gamelog(r) \/ Finish(r) \/ LeaveTry(r)
    \/ StepRaises(r) \/ Except(r) \/ ExceptRaises(r) \/ LoopCheck(r)
    \/ KeyboardInterrupt(r)

NoBracket == /\ nodes = <<>>
             /\ engine = [pc |-> "off"]

Init ==
    /\ games = <<>>
    /\ subStatus = [s \in Subs |-> "new"]
    /\ images = {}
    /\ \E rf \in BOOLEAN : runner = [r \in {1} |-> InitRunner(rf)]
    /\ NoBracket

Next ==
    \/ \E r \in Runners : RunnerStep(r)
    \/ \E r \in Runners : ClientExits(r)
    \/ \E r \in Runners : Sigint(r)
    \/ \E a \in Subs, b \in Subs : create_queued_game(a, b)

Spec == Init /\ [][Next]_vars

(***************************************************************************)
(* SpecClaim: NumClaimers runners, each at its call of grab_queued_game,   *)
(* against up to MaxQueued queued rows                                     *)
(***************************************************************************)
InitClaim ==
    /\ \E k \in 0..MaxQueued :
         \* enqueued for one node by create_needed_games: left and right
         \* are swapped for every second game
         games = [g \in 1..k |-> IF g % 2 = 1 THEN NewGame("queued", 1, 2)
                                 ELSE NewGame("queued", 2, 1)]
    /\ subStatus = [s \in Subs |-> "new"]
    /\ images = {}
    /\ runner = [r \in 1..NumClaimers |->
                    [InitRunner(FALSE) EXCEPT !.pc = "grab"]]
    /\ NoBracket

NextClaim == \E r \in Runners : GrabStmt(r) \/ GrabCommit(r) \/ GrabSubs(r)

SpecClaim == InitClaim /\ [][NextClaim]_vars

(***************************************************************************)
(* SpecPairing: get_recent_games and generate_nonrecent_pairing on every   *)
(* number of latest submissions and every list of up to MaxRecent games    *)
(***************************************************************************)
GameStatuses == {"queued", "playing", "finished", "failed"}

InitPairing ==
    /\ \E k \in 0..MaxRecent :
         \E st \in [1..k -> GameStatuses], a \in [1..k -> Subs],
            b \in [1..k -> Subs] :
           /\ \A g \in 1..k : a[g] # b[g]
           /\ games = [g \in 1..k |-> NewGame(st[g], a[g], b[g])]
    /\ subStatus = [s \in Subs |-> "new"]
    /\ images = {}
    /\ \E n \in 0..NumSubs :
         runner = [r \in {1} |->
                     [InitRunner(FALSE) EXCEPT !.pc = "recent",
                                               !.latest = 1..n]]
    /\ NoBracket

NextPairing == \E r \in Runners : Recent(r) \/ GenFirst(r) \/ GenLoop(r)

SpecPairing == InitPairing /\ [][NextPairing]_vars

(***************************************************************************)
(* The Bracket Engine (tournament_scheduler.py).  A node is a record; the  *)
(* list `nodes` holds them in creation order and a node is named by its    *)
(* index.  None stands for Python's None, BYE for the BYE pseudo           *)
(* submission.                                                             *)
(***************************************************************************)
MaxEntrants == 6        \* latest submissions the engine may start from
MaxElimination == 6     \* largest N_ELIMINATION
MaxBestOf == 2          \* largest BEST_OF
MaxBracketGames == 3    \* game rows of SpecBracket
MaxShift == 1           \* shuffles of the entrants that are tried
MaxEngineSigints == 1   \* interrupt signals sent to the engine

\* bool(os.getenv('REUSE_OLD_GAMES', True))
REUSE_OLD_GAMES == TRUE

\* a Python list with the elements f[1], ..., f[n], built by appending
RECURSIVE ListUpTo(_, _)
ListUpTo(f, n) == IF n = 0 THEN <<>> ELSE Append(ListUpTo(f, n - 1), f[n])

\* class Node, __init__
Node(subs) ==
    [submissions |-> subs, feeders |-> <<>>, inverted_feeders |-> <<>>,
     games |-> <<>>, winner |-> None, loser |-> None,
     winner_child |-> None, loser_child |-> None]

CeilLog2(n) ==
    CHOOSE k \in 0..n : 2^k >= n /\ \A j \in 0..(k - 1) : 2^j < n

\* width = 2**int(math.ceil(math.log2(len(submissions))) - 1)
Width(n) == 2^(CeilLog2(n) - 1)

\* random.shuffle(shuffled_submissions): the rotations by 0..MaxShift
Shuffles(n) == {[i \in 1..n |-> ((i - 1 + k) % n) + 1] : k \in 0..MaxShift}

\* a pairing that fills the leaves with neighbouring entries of the padded
\* list
generate_adjacent_pairing(shuffled) ==
    LET n == Len(shuffled)
        width == Width(n)
        padded == [i \in 1..(2 * width) |->
                      IF i <= n THEN shuffled[i] ELSE BYE]
    IN  ListUpTo([i \in 1..width |->
                     Node(<<padded[2 * i - 1], padded[2 * i]>>)], width)

\* generate_initial_pairing: the list is padded with BYE up to 2 * width;
\* node i gets entry i, then entry width + i
generate_initial_pairing(shuffled) ==
    LET n == Len(shuffled)
        width == Width(n)
        padded == [i \in 1..(2 * width) |->
                      IF i <= n THEN shuffled[i] ELSE BYE]
    IN  ListUpTo([i \in 1..width |-> Node(<<padded[i], padded[width + i]>>)],
                 width)

\* losses[who], wins[who] as the first loop of
\* generate_n_elimination_bracket_online counts them
losses(ns, who) == Cardinality({i \in DOMAIN ns : ns[i].loser = who})
wins(ns, who) == Cardinality({i \in DOMAIN ns : ns[i].winner = who})

\* the (node, who) entries one node adds to `available`
NodeEntries(ns, i, max_losses) ==
    (IF ns[i].winner # None /\ ns[i].winner_child = None
       THEN << <<i, ns[i].winner>> >> ELSE <<>>)
    \o (IF /\ ns[i].loser # None /\ ns[i].loser_child = None
           /\ losses(ns, ns[i].loser) < max_losses
          THEN << <<i, ns[i].loser>> >> ELSE <<>>)

RECURSIVE AvailableUpTo(_, _, _)
AvailableUpTo(ns, k, max_losses) ==
    IF k = 0 THEN <<>>
    ELSE AvailableUpTo(ns, k - 1, max_losses) \o NodeEntries(ns, k, max_losses)

\* the endpoints of all nodes but the last one
available_but_last(ns, max_losses) ==
    AvailableUpTo(ns, Len(ns) - 1, max_losses)

\* available, filled by the second loop over the nodes
available(ns, max_losses) == AvailableUpTo(ns, Len(ns), max_losses)

pending_matches(ns) == \E i \in DOMAIN ns : ns[i].winner = None

RECURSIVE SortedSeq(_)
SortedSeq(S) ==
    IF S = {} THEN <<>> ELSE <<Min(S)>> \o SortedSeq(S \ {Min(S)})

\* zip(*([iter(collection)] * 2))
pairwise(collection) ==
    [j \in 1..(Len(collection) \div 2) |->
        <<collection[2 * j - 1], collection[2 * j]>>]

\* a defaultdict of lists filled in the order of `available`, walked by
\* .items(): keys in order of first appearance, each list pairwise
RECURSIVE PairsByKey(_, _)
PairsByKey(keys, firsts) ==
    IF firsts = <<>> THEN <<>>
    ELSE pairwise(SortedSeq({i \in DOMAIN keys : keys[i] = keys[Head(firsts)]}))
            \o PairsByKey(keys, Tail(firsts))

GroupPairs(keys) ==
    PairsByKey(keys, SortedSeq({i \in DOMAIN keys :
                                   \A j \in 1..(i - 1) : keys[j] # keys[i]}))

available_by_score(ns, av) ==
    GroupPairs([i \in DOMAIN av |->
                   <<losses(ns, av[i][2]), wins(ns, av[i][2])>>])

available_by_losses(ns, av) ==
    GroupPairs([i \in DOMAIN av |-> losses(ns, av[i][2])])

\* sorted(available, key=lambda p: -losses[p[1]]), a stable sort
RECURSIVE SortedByLosses(_, _, _)
SortedByLosses(ns, av, S) ==
    IF S = {} THEN <<>>
    ELSE LET top == Max({losses(ns, av[i][2]) : i \in S})
             first == Min({i \in S : losses(ns, av[i][2]) = top})
         IN  <<first>> \o SortedByLosses(ns, av, S \ {first})

available_sorted(ns, av) == pairwise(SortedByLosses(ns, av, DOMAIN av))

\* the pairs of available entries that become new nodes: the first group
\* is always tried; the next one only if no pair was formed and no node
\* was pending
NewPairs(ns, max_losses) ==
    LET av == available(ns, max_losses)
        g1 == available_by_score(ns, av)
        g2 == available_by_losses(ns, av)
        g3 == available_sorted(ns, av)
        ip == IF g1 # <<>> \/ pending_matches(ns) THEN g1
              ELSE IF g2 # <<>> THEN g2 ELSE g3
    IN  [k \in DOMAIN ip |-> <<av[ip[k][1]], av[ip[k][2]]>>]

\* if who is node.winner: feeders ... elif who is node.loser: inverted ...
Attach(ns, new, e) ==
    IF e[2] = ns[e[1]].winner
      THEN [ns EXCEPT ![new].feeders = Append(@, e[1]),
                      ![e[1]].winner_child = new]
    ELSE IF e[2] = ns[e[1]].loser
      THEN [ns EXCEPT ![new].inverted_feeders = Append(@, e[1]),
                      ![e[1]].loser_child = new]
    ELSE ns

AddNode(ns, pair) ==
    Attach(Attach(Append(ns, Node(<<>>)), Len(ns) + 1, pair[1]),
           Len(ns) + 1, pair[2])

RECURSIVE AddNodes(_, _)
AddNodes(ns, pairs) ==
    IF pairs = <<>> THEN ns ELSE AddNodes(AddNode(ns, Head(pairs)), Tail(pairs))

\* a variant of the return test that does not look at pending nodes
BracketWinnerEarly(ns, max_losses) ==
    LET av == available(ns, max_losses)
    IN  IF Len(av) = 1 THEN av[1][1]
        ELSE IF ~pending_matches(ns) /\ Len(av) = 0 THEN Len(ns)
        ELSE None

\* what generate_n_elimination_bracket_online returns: the winner node when
\* the tournament is finished, else None (False)
BracketWinner(ns, max_losses) ==
    LET av == available(ns, max_losses)
    IN  IF ~pending_matches(ns) /\ Len(av) = 1 THEN av[1][1]
        ELSE IF ~pending_matches(ns) /\ Len(av) = 0 THEN Len(ns)
        ELSE None

\* the list `nodes` after generate_n_elimination_bracket_online
generate_n_elimination_bracket_online(ns, max_losses) ==
    IF BracketWinner(ns, max_losses) # None THEN ns
    ELSE AddNodes(ns, NewPairs(ns, max_losses))

\* the row get_games / create_queued_game / get_unused_game hands back
Snapshot(db, g) ==
    [id |-> g, status |-> db[g].status, winner_id |-> db[g].winner_id]

\* update_game_status that re-reads every attached game
update_game_status_all(ns, db) ==
    ListUpTo([i \in DOMAIN ns |->
        [ns[i] EXCEPT !.games =
            ListUpTo([k \in DOMAIN ns[i].games |->
                         Snapshot(db, ns[i].games[k].id)],
                     Len(ns[i].games))]], Len(ns))

\* update_game_status: the ids of the attached games whose snapshot is not
\* finished are re-read; every snapshot with such an id is replaced
update_game_status(ns, db) ==
    LET game_ids == UNION {{ns[i].games[k].id :
                               k \in {j \in DOMAIN ns[i].games :
                                        ns[i].games[j].status # "finished"}} :
                           i \in DOMAIN ns}
    IN  ListUpTo([i \in DOMAIN ns |->
            [ns[i] EXCEPT !.games =
                ListUpTo([k \in DOMAIN ns[i].games |->
                             IF ns[i].games[k].id \in game_ids
                               THEN Snapshot(db, ns[i].games[k].id)
                               ELSE ns[i].games[k]],
                         Len(ns[i].games))]], Len(ns))

Carried(ns, fs, loser) ==
    SelectSeq([k \in DOMAIN fs |->
                  IF loser THEN ns[fs[k]].loser ELSE ns[fs[k]].winner],
              LAMBDA x : x # None)

propogate_winners(ns, i) ==
    IF ns[i].feeders = <<>> /\ ns[i].inverted_feeders = <<>>
      THEN ns[i].submissions
      ELSE Carried(ns, ns[i].feeders, FALSE)
              \o Carried(ns, ns[i].inverted_feeders, TRUE)

\* collections.Counter(g.winner_id for g in node.games if g.winner_id):
\* the first game of every winner id whose count is > BEST_OF // 2, in the
\* order .items() walks them
Qualifying(gs, best_of) ==
    SortedSeq({k \in DOMAIN gs :
        /\ gs[k].winner_id # None
        /\ \A j \in 1..(k - 1) : gs[j].winner_id # gs[k].winner_id
        /\ Cardinality({j \in DOMAIN gs : gs[j].winner_id = gs[k].winner_id})
              > best_of \div 2})

\* <<winner, loser>> of a node with submissions subs and games gs that had
\* winner w0 and loser l0
Declared(subs, gs, w0, l0, best_of) ==
    LET bye == IF Len(subs) # 2 THEN <<w0, l0>>
               ELSE IF subs[1] = BYE /\ subs[2] = BYE THEN <<BYE, BYE>>
               ELSE IF subs[2] = BYE THEN <<subs[1], BYE>>
               ELSE IF subs[1] = BYE THEN <<subs[2], BYE>>
               ELSE <<w0, l0>>
        self == IF Len(subs) = 2 /\ subs[1] = subs[2]
                  THEN <<subs[1], subs[2]>> ELSE bye
        q == Qualifying(gs, best_of)
        last == gs[q[Len(q)]].winner_id
    IN  IF self[1] # None \/ q = <<>> THEN self
        ELSE IF Len(subs) = 2 /\ subs[1] = last THEN <<subs[1], subs[2]>>
        ELSE IF Len(subs) = 2 /\ subs[2] = last THEN <<subs[2], subs[1]>>
        ELSE self

\* raise Exception(f'Winner {winner_id} was not a member of this node')
DeclareRaises(ns, best_of) ==
    \E i \in DOMAIN ns :
        LET subs == propogate_winners(ns, i)
            q == Qualifying(ns[i].games, best_of)
        IN  /\ ~(ns[i].winner # None /\ ns[i].loser # None)
            /\ Declared(subs, <<>>, ns[i].winner, ns[i].loser, best_of)[1]
                  = None
            /\ \E k \in DOMAIN q :
                  \A j \in DOMAIN subs : subs[j] # ns[i].games[q[k]].winner_id

RECURSIVE declare_and_propogate_winners(_, _, _)
RECURSIVE DeclareEach(_, _, _)
\* for x in which: declare_and_propogate_winners(x)
DeclareEach(ns, which, best_of) ==
    IF which = <<>> THEN ns
    ELSE DeclareEach(declare_and_propogate_winners(ns, Head(which), best_of),
                     Tail(which), best_of)

declare_and_propogate_winners(ns, i, best_of) ==
    IF ns[i].winner # None /\ ns[i].loser # None THEN ns
    ELSE LET ns1 == DeclareEach(ns, ns[i].feeders, best_of)
             subs == propogate_winners(ns1, i)
             wl == Declared(subs, ns1[i].games, ns1[i].winner, ns1[i].loser,
                            best_of)
         IN  [ns1 EXCEPT ![i].submissions = subs, ![i].winner = wl[1],
                         ![i].loser = wl[2]]

\* the ids attached to the nodes that are still undecided only
used_in_pending(ns) ==
    UNION {{ns[i].games[k].id : k \in DOMAIN ns[i].games}
           : i \in {j \in DOMAIN ns : ns[j].winner = None}}

\* used_game_ids = [game.id for node in nodes for game in node.games]
used_game_ids(ns) ==
    UNION {{ns[i].games[k].id : k \in DOMAIN ns[i].games} : i \in DOMAIN ns}

\* the same query with the join on the left submission only
get_unused_game_left(db, left, right, used) ==
    {g \in DOMAIN db :
        /\ db[g].status = "finished"
        /\ left \in SubsOf2(db, g)
        /\ g \notin used}

\* the same query without its clause g.id NOT IN used_game_ids
get_unused_game_any(db, left, right, used) ==
    {g \in DOMAIN db :
        /\ db[g].status = "finished"
        /\ left \in SubsOf2(db, g) /\ right \in SubsOf2(db, g)}

\* the ids get_unused_game's WHERE clause keeps
get_unused_game(db, left, right, used) ==
    {g \in DOMAIN db :
        /\ db[g].status = "finished"
        /\ left \in SubsOf2(db, g) /\ right \in SubsOf2(db, g)
        /\ g \notin used}

\* st = [nodes, games]: the bracket and the games table
create_or_reuse_game(st, i, left, right) ==
    LET old == get_unused_game(st.games, left, right, used_game_ids(st.nodes))
        db == IF REUSE_OLD_GAMES /\ old # {} THEN st.games
              ELSE Append(st.games, NewGame("queued", left, right))
        g == IF REUSE_OLD_GAMES /\ old # {} THEN Max(old) ELSE Len(db)
    IN  [nodes |-> [st.nodes EXCEPT ![i].games = Append(@, Snapshot(db, g))],
         games |-> db]

\* for i in range(len(finished_or_queued_games), BEST_OF): ...
RECURSIVE FillNode(_, _, _, _)
FillNode(st, i, k, best_of) ==
    IF k >= best_of THEN st
    ELSE LET subs == st.nodes[i].submissions
             left == IF k % 2 = 1 THEN subs[2] ELSE subs[1]
             right == IF k % 2 = 1 THEN subs[1] ELSE subs[2]
         IN  FillNode(create_or_reuse_game(st, i, left, right), i, k + 1,
                      best_of)

\* the count without the test of g.status
CountedWithFailed(gs) == Len(gs)

\* finished_or_queued_games = [g for g in node.games if g.status in
\* ['finished', 'queued', 'playing']]
Counted(gs) ==
    Cardinality({k \in DOMAIN gs :
                    gs[k].status \in {"finished", "queued", "playing"}})

RECURSIVE create_needed_games(_, _, _)
\* the nodes from index i on
create_needed_games(st, i, best_of) ==
    IF i > Len(st.nodes) THEN st
    ELSE LET nd == st.nodes[i]
             needs == /\ nd.winner = None /\ Len(nd.submissions) = 2
                      /\ \A j \in 1..2 : nd.submissions[j] # BYE
         IN  create_needed_games(
                 IF needs THEN FillNode(st, i, Counted(nd.games), best_of)
                 ELSE st, i + 1, best_of)

\* what print_and_save_dot_file writes to OUTPUT_FILE for the bracket ns,
\* one vertex per node: kept as the number of vertices
print_and_save_dot_file(ns) == <<Len(ns)>>

\* main(): submissions = get_latest_submissions(conn); nodes = list();
\* generate_n_elimination_bracket_online(submissions, nodes, N_ELIMINATION)
EngineStart ==
    /\ engine.pc = "start"
    /\ \E shuffled \in Shuffles(engine.n) :
         nodes' = generate_n_elimination_bracket_online(
                      generate_initial_pairing(shuffled),
                      engine.N_ELIMINATION)
    /\ engine' = [engine EXCEPT !.pc = "loop"]
    /\ UNCHANGED <<games, subStatus, images, runner>>

\* one pass of the while loop up to `if winner: ... break`
Tick ==
    /\ engine.pc = "loop"
    /\ LET ns1 == update_game_status(nodes, games)
           ns2 == DeclareEach(ns1, [i \in 1..Len(ns1) |-> i], engine.BEST_OF)
           winner == BracketWinner(ns2, engine.N_ELIMINATION)
       IN  IF DeclareRaises(ns1, engine.BEST_OF)
             THEN /\ nodes' = ns1
                  /\ engine' = [engine EXCEPT !.pc = "raised"]
             ELSE /\ nodes' = generate_n_elimination_bracket_online(
                                  ns2, engine.N_ELIMINATION)
                  /\ engine' = [engine EXCEPT
                        !.pc = IF winner # None THEN "complete" ELSE "create",
                        !.winner = winner,
                        !.dot = IF winner # None
                                  THEN print_and_save_dot_file(ns2) ELSE @]
    /\ UNCHANGED <<games, subStatus, images, runner>>

\* create_needed_games(conn, [nodes]); time.sleep(REFRESH_SECONDS)
CreateNeeded ==
    /\ engine.pc = "create"
    /\ LET st == create_needed_games([nodes |-> nodes, games |-> games], 1,
                                     engine.BEST_OF)
       IN  /\ Len(st.games) <= MaxBracketGames
           /\ nodes' = st.nodes
           /\ games' = st.games
    /\ engine' = [engine EXCEPT !.pc = "loop"]
    /\ UNCHANGED <<subStatus, images, runner>>

\* The runners, seen from the engine: what their steps do to a game row.
\* grab_queued_game: the queued game with the lowest id becomes playing
RunnerClaims ==
    /\ Claimable(games) # {}
    /\ games' = [games EXCEPT ![FirstClaimable(games)].status = "playing",
                              ![FirstClaimable(games)].claims = @ + 1]
    /\ UNCHANGED <<subStatus, images, runner, nodes, engine>>

\* update_game_succeeded at the end of the try block
RunnerFinishes ==
    /\ \E g \in GameIds, w \in 1..2 :
         /\ games[g].status = "playing"
         /\ games' = update_game_succeeded(games, Reason("won", g),
                                           Reason("lost", g),
                                           games[g].subs[w], g)
    /\ UNCHANGED <<subStatus, images, runner, nodes, engine>>

\* update_game_failed in `except Exception`
RunnerFails ==
    /\ \E g \in GameIds :
         /\ games[g].status = "playing"
         /\ games' = update_game_failed(games, g, ArenaFailed)
    /\ UNCHANGED <<subStatus, images, runner, nodes, engine>>

\* update_game_failed in `except KeyboardInterrupt` when the interrupt
\* comes at the end of the try block, after update_game_succeeded
RunnerCancels ==
    /\ \E g \in GameIds :
         /\ games[g].status = "finished"
         /\ games[g].claims = 1
         /\ games' = update_game_failed(games, g, CancelledByAdmin)
    /\ UNCHANGED <<subStatus, images, runner, nodes, engine>>

\* a game the runners played before the tournament
OldGame == update_game_succeeded(<<NewGame("playing", 1, 2)>>,
                                 Reason("won", 1), Reason("lost", 1), 1, 1)

InitBracket ==
    /\ games \in {<<>>, OldGame}
    /\ subStatus = [s \in Subs |-> "new"]
    /\ images = {}
    /\ runner = <<>>
    /\ nodes = <<>>
    /\ \E n \in 2..MaxEntrants, N \in 1..MaxElimination, b \in 1..MaxBestOf :
         engine = [pc |-> "start", n |-> n, N_ELIMINATION |-> N,
                   BEST_OF |-> b, winner |-> None,
                   sigints |-> 0, dot |-> <<>>]

NextBracket ==
    \/ EngineStart \/ Tick \/ CreateNeeded
    \/ RunnerClaims \/ RunnerFinishes \/ RunnerFails \/ RunnerCancels

SpecBracket == InitBracket /\ [][NextBracket]_vars

(***************************************************************************)
(* Claims about the Match Runner                                           *)
(***************************************************************************)
\* grab_queued_game has returned to main()
ClaimReturned(r) == runner[r].pc \in {"recent", "prepare"}
Winners == {r \in Runners : runner[r].game_id # None}

\* C1: when N runners have each run grab_queued_game once against K queued
\* games, no game id was returned to two of them, exactly min(N, K) of them
\* got a game, and every returned game was moved from queued to playing by
\* exactly one runner; at no time do two runners hold the same row.
C1_ClaimsAreExclusive ==
    /\ \A r1 \in Runners, r2 \in Runners :
         (r1 # r2 /\ runner[r1].claimed # None)
            => runner[r1].claimed # runner[r2].claimed
    /\ \A g \in GameIds : games[g].claims <= 1
    /\ (\A r \in Runners : ClaimReturned(r)) =>
         /\ Cardinality(Winners) = Min({Cardinality(Runners), Len(games)})
         /\ Cardinality({runner[r].game_id : r \in Winners})
               = Cardinality(Winners)
         /\ \A r \in Winners :
              /\ games[runner[r].game_id].status = "playing"
              /\ games[runner[r].game_id].claims = 1

\* C1 witness: more runners than rows, all returned, every row claimed
C1_Witness ==
    /\ \A r \in Runners : ClaimReturned(r)
    /\ Len(games) >= 2
    /\ Cardinality(Runners) > Len(games)
    /\ Cardinality(Winners) = Len(games)

\* C2: every game whose status is finished has a winner_id that is the id
\* of one of the two submissions linked to it in games_submissions.
C2_FinishedWinnerIsASide ==
    \A g \in GameIds :
        games[g].status = "finished" => games[g].winner_id \in SubsOf(g)

\* C2 witness: a finished game claimed from the queue and a finished game
\* that the runner generated, between different pairs
C2_Witness ==
    \E g \in GameIds, h \in GameIds :
        /\ games[g].status = "finished" /\ games[g].claims = 1
        /\ games[h].status = "finished" /\ games[h].claims = 0
        /\ SubsOf(g) # SubsOf(h)

\* C3: every status change of a game is queued -> playing, playing ->
\* finished or playing -> failed; a finished or failed game never changes
\* status again.
Lifecycle ==
    {<<"queued", "playing">>, <<"playing", "finished">>,
     <<"playing", "failed">>}
C3_StatusLifecycle ==
    [][\A g \in GameIds :
          games'[g].status # games[g].status
             => <<games[g].status, games'[g].status>> \in Lifecycle]_vars

\* the game id the iteration obtained: game_id once main() has it, else the
\* id grab_queued_game got back from its UPDATE
Obtained(r) ==
    IF runner[r].game_id # None THEN runner[r].game_id ELSE runner[r].claimed

\* C4: a game that a runner moved to playing reaches finished or failed
\* while the runner keeps running.  The runner touches a game only in the
\* iteration that obtained it, so the claim is stated at the start of the
\* iteration that follows: the game is finished or failed by then.
C4_PlayingGameIsSettled ==
    \A r \in Runners :
        (runner[r].pc = "start" /\ Obtained(r) # None)
           => games[Obtained(r)].status \in {"finished", "failed"}

\* C6: an iteration that obtained a game id and then raised an error ends
\* with that game failed, both reasons 'Arena failed to run game', and the
\* process still running.
C6_ErrorFailsTheGame ==
    \A r \in Runners :
        (runner[r].raised /\ Obtained(r) # None
            /\ runner[r].pc \in {"after", "crashed"})
           => /\ runner[r].pc # "crashed"
              /\ games[Obtained(r)].status = "failed"
              /\ games[Obtained(r)].win_reason = ArenaFailed
              /\ games[Obtained(r)].lose_reason = ArenaFailed

\* C7: when the match supervision is left (kill_remaining_clients has
\* returned, or an exception has left the try block), no client container
\* process started for the match is still running.
C7_NoClientLeftRunning ==
    \A r \in Runners :
        runner[r].pc \in {"gamelog", "except"}
           => \A i \in DOMAIN runner[r].processes :
                 runner[r].processes[i] # "running"

Interrupted(r) == runner[r].pc \in {"kbd", "exited", "killed"}
InFlightCancelled(r) ==
    /\ runner[r].game_id # None
    /\ games[runner[r].game_id].win_reason = CancelledByAdmin

C5_PairingIsNotRecent ==
    \A r \in Runners :
        runner[r].pc = "insert" =>
            /\ runner[r].pair[1] # runner[r].pair[2]
            /\ \A g \in GameIds :
                  games[g].status # "queued"
                     => SubsOf(g) # {runner[r].pair[1], runner[r].pair[2]}

\* C5 witness: a pair is returned while a non-queued recent game holds its
\* two ids in descending order
C5_Witness ==
    \E r \in Runners :
        /\ runner[r].pc = "insert"
        /\ runner[r].pairs # {}
        /\ \E g \in GameIds :
              games[g].status # "queued" /\ games[g].subs[1] > games[g].subs[2]

Decided(nd) == nd.winner # None /\ nd.loser # None

\* C9: once a node has a winner and a loser, no step changes its winner,
\* loser or submissions; and no step replaces an attached game whose status
\* is finished.
C9_BracketIsMonotone ==
    [][\A i \in DOMAIN nodes :
          /\ Decided(nodes[i]) =>
                /\ nodes'[i].winner = nodes[i].winner
                /\ nodes'[i].loser = nodes[i].loser
                /\ nodes'[i].submissions = nodes[i].submissions
          /\ \A k \in DOMAIN nodes[i].games :
                nodes[i].games[k].status = "finished"
                   => nodes'[i].games[k] = nodes[i].games[k]]_vars

\* C9 witness: a node decided by a game fed its winner to a later node that
\* was decided by a game in turn, and the row of the first node's finished
\* game has since become failed
C9_Witness ==
    \E i \in DOMAIN nodes, j \in DOMAIN nodes :
        /\ Decided(nodes[i]) /\ Decided(nodes[j])
        /\ nodes[i].winner_child = j
        /\ \E k \in DOMAIN nodes[i].games :
              /\ nodes[i].games[k].status = "finished"
              /\ games[nodes[i].games[k].id].status = "failed"
        /\ \E k \in DOMAIN nodes[j].games :
              nodes[j].games[k].status = "finished"

\* C10: whenever generate_n_elimination_bracket_online creates a node,
\* every submission carried into it (a feeder's winner, an inverted
\* feeder's loser), BYE included, has fewer than N_ELIMINATION losses in
\* the bracket as it is at that moment.
C10_NoEliminatedSource ==
    [][\A j \in (DOMAIN nodes') \ (DOMAIN nodes) :
          /\ \A k \in DOMAIN nodes'[j].feeders :
                losses(nodes', nodes'[nodes'[j].feeders[k]].winner)
                   < engine.N_ELIMINATION
          /\ \A k \in DOMAIN nodes'[j].inverted_feeders :
                losses(nodes', nodes'[nodes'[j].inverted_feeders[k]].loser)
                   < engine.N_ELIMINATION]_vars

(***************************************************************************)
(* Claims about the end of the tournament                                  *)
(***************************************************************************)
\* the real submissions that may still play: fewer than N_ELIMINATION
\* losses in the bracket
Survivors ==
    {s \in 1..engine.n : losses(nodes, s) < engine.N_ELIMINATION}

\* C11: when the engine reports the tournament complete, no node is
\* pending, exactly one real submission has fewer than N_ELIMINATION
\* losses, that submission (never BYE) is the winner of the returned node,
\* and every other real submission has at least N_ELIMINATION losses.
C11_CompleteHasOneSurvivor ==
    engine.pc = "complete" =>
        /\ ~pending_matches(nodes)
        /\ engine.winner \in DOMAIN nodes
        /\ nodes[engine.winner].winner # BYE
        /\ Survivors = {nodes[engine.winner].winner}

\* C11 witness: a tournament of two eliminations or more completed, the
\* winner having lost a match on the way
C11_Witness ==
    /\ engine.pc = "complete"
    /\ engine.N_ELIMINATION >= 2
    /\ losses(nodes, nodes[engine.winner].winner) >= 1

(***************************************************************************)
(* The tournament under the assumption that every game is played to the    *)
(* end: runners keep claiming queued games and every claimed game reaches  *)
(* finished with one of its two submissions as the winner.  The engine's   *)
(* loop (tick, sleep, tick) and the runners' loops never stop by           *)
(* themselves, hence the weak fairness of every step.  The configurations  *)
(* are those whose matches all fit below the bound on game rows.           *)
(***************************************************************************)
\* an upper bound of the game rows a tournament needs: at most
\* N_ELIMINATION * (n - 1) + N_ELIMINATION - 1 matches of BEST_OF games
GamesNeeded(n, N, b) == (N * (n - 1) + N - 1) * b

InitLive ==
    /\ games \in {<<>>, OldGame}
    /\ subStatus = [s \in Subs |-> "new"]
    /\ images = {}
    /\ runner = <<>>
    /\ nodes = <<>>
    /\ \E n \in 2..MaxEntrants, N \in 1..MaxElimination, b \in 1..MaxBestOf :
         /\ GamesNeeded(n, N, b) + Len(games) <= MaxBracketGames
         /\ engine = [pc |-> "start", n |-> n, N_ELIMINATION |-> N,
                      BEST_OF |-> b, winner |-> None,
                   sigints |-> 0, dot |-> <<>>]

NextLive ==
    \/ EngineStart \/ Tick \/ CreateNeeded
    \/ RunnerClaims \/ RunnerFinishes

\* weak fairness of Tick: Tick is enabled exactly when the engine is at the
\* top of its loop and every Tick leaves that position, so WF_vars(Tick)
\* says that the engine does not stay there forever
TickIsFair == []<>(engine.pc # "loop")

SpecLive ==
    /\ InitLive /\ [][NextLive]_vars
    /\ WF_vars(EngineStart) /\ TickIsFair /\ WF_vars(CreateNeeded)
    /\ WF_vars(RunnerClaims) /\ WF_vars(RunnerFinishes)

\* C12: if every game the engine attaches to a node eventually reaches
\* finished with a winner among the node's two submissions, the engine
\* eventually reports the tournament complete, for every number of
\* entrants, N_ELIMINATION and BEST_OF.
C12_EventuallyComplete == <>(engine.pc = "complete")

(***************************************************************************)
(* Claims about one pass of the engine's loop                              *)
(***************************************************************************)
\* one pass of the while loop of main() on the bracket and the game rows
\* st: update_game_status, declare_and_propogate_winners for every node,
\* generate_n_elimination_bracket_online, and create_needed_games unless a
\* winner was returned
OneTick(st, max_losses, best_of) ==
    LET ns1 == update_game_status(st.nodes, st.games)
        ns2 == DeclareEach(ns1, [i \in 1..Len(ns1) |-> i], best_of)
        ns3 == generate_n_elimination_bracket_online(ns2, max_losses)
    IN  IF DeclareRaises(ns1, best_of)
          THEN [nodes |-> ns1, games |-> st.games]
        ELSE IF BracketWinner(ns2, max_losses) # None
          THEN [nodes |-> ns3, games |-> st.games]
        ELSE create_needed_games([nodes |-> ns3, games |-> st.games], 1,
                                 best_of)

\* C13: at the end of a tick (create_needed_games has returned), running
\* one more tick before any game row changes leaves the bracket identical
\* (nodes, feeder and inverted-feeder edges, submissions, winners,
\* attached games) and creates no game row.
C13_TickIsIdempotent ==
    [][(engine.pc = "create" /\ engine'.pc = "loop")
          => OneTick([nodes |-> nodes', games |-> games'],
                     engine.N_ELIMINATION, engine.BEST_OF)
               = [nodes |-> nodes', games |-> games']]_vars

(***************************************************************************)
(* Claims about reusing finished games                                     *)
(***************************************************************************)
\* the slots <<node, position>> that a step added to the nodes' games
NewSlots ==
    UNION {{<<i, k>> : k \in (Len(nodes[i].games) + 1)..Len(nodes'[i].games)}
           : i \in DOMAIN nodes}

\* slot s is filled before slot t: nodes in list order, then range(i, BEST_OF)
Earlier(s, t) == s[1] < t[1] \/ (s[1] = t[1] /\ s[2] < t[2])

\* the finished games between exactly the two submissions of node i that
\* are attached nowhere in the bracket before the step
ReusableFor(i) ==
    {g \in DOMAIN games :
        /\ games[g].status = "finished"
        /\ SubsOf(g) = {nodes[i].submissions[1], nodes[i].submissions[2]}
        /\ g \notin used_game_ids(nodes)}

\* game g was attached to a slot filled before slot t in the same step
TakenBefore(g, t) ==
    \E s \in NewSlots : Earlier(s, t) /\ nodes'[s[1]].games[s[2]].id = g

\* C14: with REUSE_OLD_GAMES enabled, whenever a node needs a game for a
\* pair and a finished game between exactly these two submissions exists
\* that is attached nowhere in the bracket, create_needed_games attaches
\* that game (the one with the highest id) and creates no queued game for
\* that slot; the reused game counts toward the node's BEST_OF games.
C14_ReusesFinishedGame ==
    [][(REUSE_OLD_GAMES /\ engine.pc = "create" /\ engine'.pc = "loop") =>
          /\ \A t \in NewSlots :
               LET got == nodes'[t[1]].games[t[2]]
                   left == ReusableFor(t[1])
               IN  /\ IF got.id \in DOMAIN games
                        THEN /\ got.id \in left
                             /\ got.status = "finished"
                             /\ ~TakenBefore(got.id, t)
                             /\ \A h \in left : h > got.id => TakenBefore(h, t)
                        ELSE /\ \A h \in left : TakenBefore(h, t)
                             /\ games'[got.id].status = "queued"
                   /\ Counted(nodes'[t[1]].games) = engine.BEST_OF
          /\ Len(games') - Len(games)
               = Cardinality({t \in NewSlots :
                     nodes'[t[1]].games[t[2]].id \notin DOMAIN games})]_vars

\* C14 witness: a node of a best-of-two match whose first attached game is
\* the finished game played before the tournament and whose second one is
\* a row the engine created
C14_Witness ==
    \E i \in DOMAIN nodes :
        /\ engine.BEST_OF = 2 /\ Len(nodes[i].games) = 2
        /\ nodes[i].games[1].id = 1 /\ nodes[i].games[1].status = "finished"
        /\ games[1].claims = 0
        /\ nodes[i].games[2].id = 2

(***************************************************************************)
(* The engine and an interrupt signal                                      *)
(***************************************************************************)
\* signal.signal(signal.SIGINT, sigint_handler): the handler logs, calls
\* print_and_save_dot_file() and returns, and main() goes on where it was
EngineSigint ==
    /\ engine.pc \in {"loop", "create"}
    /\ engine.sigints < MaxEngineSigints
    /\ engine' = [engine EXCEPT !.sigints = @ + 1,
                                !.dot = print_and_save_dot_file(nodes)]
    /\ UNCHANGED <<games, subStatus, images, runner, nodes>>

NextInterrupt == NextBracket \/ EngineSigint

SpecInterrupt == InitLive /\ [][NextInterrupt]_vars

\* C15: when the engine receives an interrupt signal it writes the DOT
\* output of the current bracket and then exits: after the interrupt no
\* further tick is run and no further game is enqueued.
C15_InterruptStopsTheEngine ==
    [][/\ (engine'.sigints > engine.sigints)
            => engine'.dot = print_and_save_dot_file(nodes)
       /\ engine.sigints > 0
            => /\ engine' = engine /\ nodes' = nodes
               /\ Len(games') = Len(games)]_vars

(***************************************************************************)
(* Claims about what a runner iteration works on                           *)
(***************************************************************************)
\* the positions of generate_nonrecent_pairing and insert_new_game_row
GeneratingPcs == {"recent", "generate", "gen_loop", "insert"}
Queued == {g \in GameIds : games[g].status = "queued"}

\* C16: in an iteration that starts while a game is queued (no other
\* runner is claiming), the runner takes the queued game with the lowest
\* id, moves it to playing and inserts no game row; it generates a random
\* pairing only when no game is queued.
C16_QueuedGameFirst ==
    \A r \in Runners :
        /\ runner[r].pc \in GeneratingPcs
              => Queued = {} /\ runner[r].claimed = None
        /\ runner[r].pc = "grab_commit" =>
              IF runner[r].claimed = None THEN Queued = {}
              ELSE /\ runner[r].claimed \in Queued
                   /\ \A g \in Queued : runner[r].claimed <= g
        /\ runner[r].pc = "grab_subs"
              => games[runner[r].claimed].status = "playing"
        /\ (runner[r].game_id # None /\ runner[r].claimed # None)
              => runner[r].game_id = runner[r].claimed

\* C16 witness: the runner works on a claimed game while a game with a
\* higher id is still queued
C16_Witness ==
    \E r \in Runners, g \in Queued :
        /\ runner[r].pc = "prepare"
        /\ runner[r].claimed # None /\ runner[r].game_id = runner[r].claimed
        /\ runner[r].claimed < g

\* C17: with exactly two eligible submissions and no queued game, every
\* runner iteration, the first and every later one, gets that one pair
\* from generate_nonrecent_pairing and inserts a game between the two.
C17_TwoSubmissionsAlwaysPaired ==
    \A r \in Runners :
        (Cardinality(runner[r].latest) = 2 /\ Queued = {}) =>
            /\ runner[r].pc # "except"
            /\ runner[r].pc = "insert"
                  => {runner[r].pair[1], runner[r].pair[2]} = runner[r].latest

(***************************************************************************)
(* Claims about the initial pairing                                        *)
(***************************************************************************)
\* the nodes generate_initial_pairing made: they have no incoming edge
Leaves ==
    {i \in DOMAIN nodes :
        nodes[i].feeders = <<>> /\ nodes[i].inverted_feeders = <<>>}

\* the positions <<leaf, side>> that hold `who`
LeafEntries(who) ==
    UNION {{<<i, j>> : j \in {k \in DOMAIN nodes[i].submissions :
                                 nodes[i].submissions[k] = who}}
           : i \in Leaves}

\* C18: for n >= 2 eligible submissions generate_initial_pairing returns
\* width = 2^(ceil(log2 n) - 1) leaves of two entries each; every
\* submission is in exactly one leaf exactly once, 2 * width - n entries
\* are BYE, and no leaf holds BYE on both sides.
C18_InitialPairing ==
    engine.pc \notin {"start", "off"} =>
        /\ \E k \in 0..engine.n :
              /\ 2^k < engine.n /\ engine.n <= 2^(k + 1)
              /\ Cardinality(Leaves) = 2^k
              /\ Cardinality(LeafEntries(BYE)) = 2 * 2^k - engine.n
        /\ \A i \in Leaves :
              /\ Len(nodes[i].submissions) = 2
              /\ nodes[i].submissions # <<BYE, BYE>>
        /\ \A s \in 1..engine.n : Cardinality(LeafEntries(s)) = 1

\* C18 witness: five entrants just paired, four leaves, three of them with
\* a BYE
C18_Witness ==
    /\ engine.pc = "loop" /\ engine.n = 5
    /\ Len(nodes) = 4 /\ Leaves = 1..4
    /\ Cardinality(LeafEntries(BYE)) = 3

\* C19: a submission whose status is failed is never a side of a game the
\* runner works on, whether the pair was generated from the latest
\* eligible submissions or hydrated from a claimed queued game.
C19_FailedNeverPlays ==
    \A r \in Runners :
        runner[r].pc = "prepare" =>
            \A j \in DOMAIN runner[r].pair :
                subStatus[runner[r].pair[j]] # "failed"

\* C20: whenever maybe_build_submission_container skips the build because
\* the image of the submission exists already, the submission's status has
\* reached finished, whatever happened in earlier iterations.
C20_SkippedBuildIsFinished ==
    [][\A r \in Runners :
          (/\ runner[r].pc = "prepare"
           /\ runner'[r].prep = runner[r].prep + 1
           /\ runner[r].pair[runner[r].prep] \in images)
             => subStatus[runner[r].pair[runner[r].prep]] = "finished"]_vars

(***************************************************************************)
(* Claims about submissions that cannot be run                             *)
(***************************************************************************)
\* C21: for each submission-fatal cause (no Joueur directory, unknown
\* language, missing Makefile or run file, missing per-language Dockerfile,
\* build without image) the iteration sets the submission's status to
\* failed, marks the current game failed, and the runner goes on to the
\* end of the iteration.
C21_FatalSubmissionIsFailed ==
    [][\A r \in Runners :
          /\ (runner[r].fatal = None /\ runner'[r].fatal # None)
                => subStatus'[runner'[r].fatal] = "failed"
          /\ (/\ runner[r].fatal # None /\ runner'[r].fatal = None
              /\ runner'[r].sigints = runner[r].sigints)
                => /\ runner'[r].pc = "after"
                   /\ games'[runner[r].game_id].status = "failed"]_vars

(***************************************************************************)
(* Claims about the games of a node                                        *)
(***************************************************************************)
\* the attached games of a node that are not failed, by the status the
\* engine holds for them
LiveGames(nd) ==
    {k \in DOMAIN nd.games :
        nd.games[k].status \in {"finished", "queued", "playing"}}

\* the node is undecided and has two real submissions
NeedsGames(nd) ==
    /\ nd.winner = None /\ Len(nd.submissions) = 2
    /\ nd.submissions[1] # BYE /\ nd.submissions[2] # BYE

\* C22: every node has at most BEST_OF attached games whose status is
\* finished, queued or playing, and after each create_needed_games pass
\* every undecided node with two real submissions has exactly BEST_OF of
\* them (failed games are replaced, not counted).
C22_BestOfGames ==
    [][/\ \A i \in DOMAIN nodes' :
             Cardinality(LiveGames(nodes'[i])) <= engine.BEST_OF
       /\ (engine.pc = "create" /\ engine'.pc = "loop") =>
             \A i \in DOMAIN nodes' :
                 NeedsGames(nodes'[i])
                    => Cardinality(LiveGames(nodes'[i])) = engine.BEST_OF]_vars

\* C22 witness: a node of a best-of-two match with three attached games,
\* one of them failed and replaced
C22_Witness ==
    \E i \in DOMAIN nodes :
        /\ engine.BEST_OF = 2 /\ engine.pc = "loop"
        /\ Len(nodes[i].games) = 3
        /\ Cardinality(LiveGames(nodes[i])) = 2

(***************************************************************************)
(* Claims about the grow step                                              *)
(***************************************************************************)
\* the bracket the grow step of the next tick works on: the game statuses
\* refreshed and the winners declared
GrowInput ==
    LET ns1 == update_game_status(nodes, games)
    IN  DeclareEach(ns1, [i \in 1..Len(ns1) |-> i], engine.BEST_OF)

\* the pairs of the first of the three groupings that forms a pair
FirstGroupingPairs(ns, max_losses) ==
    LET av == available(ns, max_losses)
        g1 == available_by_score(ns, av)
        g2 == available_by_losses(ns, av)
        g3 == available_sorted(ns, av)
        ip == IF g1 # <<>> THEN g1 ELSE IF g2 # <<>> THEN g2 ELSE g3
    IN  [k \in DOMAIN ip |-> <<av[ip[k][1]], av[ip[k][2]]>>]

\* C23: in every grow step with at least two available endpoints, pairing
\* is tried within (losses, wins) classes, then within losses classes,
\* then over all endpoints sorted by descending losses, and the nodes of
\* the first grouping that forms a pair are the ones created, whether or
\* not other nodes are pending.
C23_FirstGroupingThatPairs ==
    [][(/\ engine.pc = "loop" /\ engine'.pc = "create"
        /\ Len(available(GrowInput, engine.N_ELIMINATION)) >= 2)
          => nodes' = AddNodes(GrowInput,
                         FirstGroupingPairs(GrowInput, engine.N_ELIMINATION))]_vars

(***************************************************************************)
(* Claims about the result the runner stores                               *)
(***************************************************************************)
\* C24: for every game the runner marks finished, in any iteration, the
\* stored win_reason is the reason of a client with won=true in that
\* game's final status and the stored lose_reason is the reason of a
\* client with lost=true in that same status; no value from an earlier
\* game's status is written.
C24_ReasonsOfThisGame ==
    \A g \in GameIds :
        games[g].status = "finished" =>
            /\ games[g].win_reason = Reason("won", g)
            /\ games[g].lose_reason = Reason("lost", g)

\* C25: across the games the engine enqueues for one node in one pass, the
\* submission that plays first (launched with index 0 by the runner that
\* claimed the game) alternates from one game to the next.
C25_FirstPlayerAlternates ==
    \A r1 \in Runners, r2 \in Runners :
        (/\ runner[r1].pc = "prepare" /\ runner[r2].pc = "prepare"
         /\ runner[r1].game_id # None /\ runner[r2].game_id # None
         /\ runner[r2].game_id = runner[r1].game_id + 1)
           => runner[r1].pair[1] # runner[r2].pair[1]

(***************************************************************************)
(* Claims about the client containers                                      *)
(***************************************************************************)
\* C26: after wait_for_clients_to_finish and kill_remaining_clients the
\* log files of both client containers are closed, whether one client
\* exited, both exited in the same poll interval, or none exited before
\* MATCH_TIMEOUT.
C26_ClientLogsClosed ==
    \A r \in Runners :
        runner[r].pc = "gamelog" =>
            \A i \in DOMAIN runner[r].stdouts : runner[r].stdouts[i] = "closed"

(***************************************************************************)
(* Claims about the edges of the bracket                                   *)
(***************************************************************************)
\* the positions <<node, k>> of the feeders (inverted feeders) lists that
\* hold node i
AsFeeder(i) ==
    UNION {{<<j, k>> : k \in {m \in DOMAIN nodes[j].feeders :
                                 nodes[j].feeders[m] = i}}
           : j \in DOMAIN nodes}
AsInvertedFeeder(i) ==
    UNION {{<<j, k>> : k \in {m \in DOMAIN nodes[j].inverted_feeders :
                                 nodes[j].inverted_feeders[m] = i}}
           : j \in DOMAIN nodes}

\* C27: each decided node's winner is carried into at most one feeder edge
\* and its loser into at most one inverted-feeder edge: a node appears at
\* most once among all feeders lists and at most once among all
\* inverted_feeders lists, nodes decided as BYE vs BYE included, and every
\* non-leaf node has exactly two incoming edges.
C27_EdgesAreUnique ==
    /\ \A i \in DOMAIN nodes :
          /\ Cardinality(AsFeeder(i)) <= 1
          /\ Cardinality(AsInvertedFeeder(i)) <= 1
    /\ \A j \in (DOMAIN nodes) \ Leaves :
          Len(nodes[j].feeders) + Len(nodes[j].inverted_feeders) = 2

(***************************************************************************)
(* Claims about the games the engine attaches                              *)
(***************************************************************************)
\* the slots <<node, position>> a game id is attached to
AttachedAt(g) ==
    UNION {{<<i, k>> : k \in {m \in DOMAIN nodes[i].games :
                                 nodes[i].games[m].id = g}}
           : i \in DOMAIN nodes}

\* C28: no game id is attached more than once in the bracket: not twice
\* to the same node and not to two different nodes, also when the same two
\* submissions meet again in a later node with REUSE_OLD_GAMES enabled.
C28_GameAttachedOnce ==
    \A g \in GameIds : Cardinality(AttachedAt(g)) <= 1

\* C28 witness: the same two submissions met in two nodes, the first one
\* decided by the reused game played before the tournament, the later one
\* with a game of its own
C28_Witness ==
    \E i \in DOMAIN nodes, j \in DOMAIN nodes :
        /\ i < j
        /\ nodes[i].games # <<>> /\ nodes[j].games # <<>>
        /\ {nodes[i].submissions[1], nodes[i].submissions[2]}
              = {nodes[j].submissions[1], nodes[j].submissions[2]}
        /\ nodes[i].games[1].id = 1 /\ games[1].claims = 0

\* the real submissions of the tournament
Entrants == 1..engine.n

\* C29: every game the engine enqueues or reuses is between two distinct
\* real submissions, the two of the node it is attached to: no side is
\* BYE, the sides differ, and no real submission is on both sides of a
\* node.
C29_GamesBetweenTwoEntrants ==
    /\ \A i \in DOMAIN nodes :
          /\ \A k \in DOMAIN nodes[i].games :
                LET g == nodes[i].games[k].id
                IN  /\ games[g].subs[1] # games[g].subs[2]
                    /\ SubsOf(g) \subseteq Entrants
                    /\ Len(nodes[i].submissions) = 2
                    /\ SubsOf(g) = {nodes[i].submissions[1],
                                    nodes[i].submissions[2]}
          /\ (Len(nodes[i].submissions) = 2
                /\ nodes[i].submissions[1] = nodes[i].submissions[2])
               => nodes[i].submissions[1] = BYE
    /\ \A g \in GameIds :
          games[g].subs[1] # games[g].subs[2] /\ SubsOf(g) \subseteq Entrants

\* C29 witness: a node with BYE on both sides was decided without a game
\* while a node with two entrants has a game
C29_Witness ==
    \E i \in DOMAIN nodes, j \in DOMAIN nodes :
        /\ nodes[i].submissions = <<BYE, BYE>> /\ nodes[i].winner = BYE
        /\ nodes[i].games = <<>>
        /\ nodes[j].games # <<>>

\* C30: the starvation branch is unreachable: whenever no node is pending
\* when the grow step looks at the bracket, at least one endpoint is
\* available, the winner of a decided node without a winner_child, so
\* 'No matches, and no available players!' is never logged.
C30_NoStarvation ==
    (/\ engine.pc = "loop"
     /\ ~DeclareRaises(update_game_status(nodes, games), engine.BEST_OF)
     /\ ~pending_matches(GrowInput))
       => LET av == available(GrowInput, engine.N_ELIMINATION)
          IN  \E k \in DOMAIN av :
                 /\ GrowInput[av[k][1]].winner = av[k][2]
                 /\ GrowInput[av[k][1]].winner_child = None

\* C30 witness: no node is pending and two endpoints are available, so the
\* tournament goes on
C30_Witness ==
    /\ engine.pc = "loop"
    /\ ~DeclareRaises(update_game_status(nodes, games), engine.BEST_OF)
    /\ ~pending_matches(GrowInput)
    /\ Len(available(GrowInput, engine.N_ELIMINATION)) >= 2

====
